---- MODULE Spec2Model ----
(***************************************************************************)
(* The booking and availability handlers of src/server.js as a state       *)
(* machine.  Every await of a handler is one step: the awaited call (a     *)
(* store query, a calendar call, a mail call) takes effect when the step   *)
(* fires, and the synchronous code up to the next await runs with it.      *)
(* Several POST /book requests are in flight at once and their steps       *)
(* interleave freely, as the handlers of one Node process do.              *)
(***************************************************************************)
EXTENDS Integers, Sequences, FiniteSets, TLC

\* ------------------------------------------------------------------ bounds
\* POST /book requests over the life of a run (they may all be in flight at once).
MaxReqs == 2
\* Intervals the owners have put on their calendars outside this service.
MaxBusy == 1

Reqs == 1..MaxReqs

\* -------------------------------------------------------------------- time
\* Instants are milliseconds since the epoch, as Date.getTime() gives them.
MsPerMin == 60 * 1000

\* toISOString() of the instants of the model: (instant, ISO-8601 text).
IsoTable ==
  { <<0 * MsPerMin, "1970-01-01T00:00:00.000Z">>,
    <<1 * MsPerMin, "1970-01-01T00:01:00.000Z">>,
    <<2 * MsPerMin, "1970-01-01T00:02:00.000Z">>,
    <<3 * MsPerMin, "1970-01-01T00:03:00.000Z">>,
    <<4 * MsPerMin, "1970-01-01T00:04:00.000Z">>,
    <<5 * MsPerMin, "1970-01-01T00:05:00.000Z">>,
    <<6 * MsPerMin, "1970-01-01T00:06:00.000Z">>,
    <<30 * 1000, "1970-01-01T00:00:30.000Z">>,
    <<90 * 1000, "1970-01-01T00:01:30.000Z">>,
    <<540 * MsPerMin, "1970-01-01T09:00:00.000Z">>,
    <<555 * MsPerMin, "1970-01-01T09:15:00.000Z">>,
    <<570 * MsPerMin, "1970-01-01T09:30:00.000Z">>,
    <<585 * MsPerMin, "1970-01-01T09:45:00.000Z">>,
    <<600 * MsPerMin, "1970-01-01T10:00:00.000Z">>,
    <<630 * MsPerMin, "1970-01-01T10:30:00.000Z">> }

\* Other spellings new Date(text) accepts: (text, instant).
AltSpellings ==
  { <<"1970-01-01T00:01Z", 1 * MsPerMin>>,
    <<"Thu, 01 Jan 1970 00:00:00 GMT", 0>> }

\* An invalid Date: getTime() is NaN.
NaN == -1 - MsPerMin

\* new Date(text).getTime()
DateParse(text) ==
  IF \E p \in IsoTable : p[2] = text
    THEN (CHOOSE p \in IsoTable : p[2] = text)[1]
  ELSE IF \E p \in AltSpellings : p[1] = text
    THEN (CHOOSE p \in AltSpellings : p[1] = text)[2]
  ELSE NaN

\* Date.prototype.toISOString(); it throws a RangeError on an invalid Date,
\* which callers test for with IsNaN before calling this.
ToISOString(ms) == (CHOOSE p \in IsoTable : p[1] = ms)[2]

IsNaN(ms) == ms = NaN

\* The store compares timestamptz values: an ISO text parameter is read back
\* as the instant it names.
Timestamptz(iso) == DateParse(iso)

\* ---------------------------------------------------------- the store's rows
\* users, oauth_tokens and meeting_types as the handlers find them.  u3 signed
\* up by e-mail and never connected a Google calendar.
UserRows ==
  { [id |-> "u1", email |-> "host1@example.com"],
    [id |-> "u2", email |-> "host2@example.com"],
    [id |-> "u3", email |-> "host3@example.com"] }

OauthRows == { "u1", "u2" }

MeetingTypeRows ==
  { [id |-> 1, user_id |-> "u1", title |-> "Intro",   duration_minutes |-> 1],
    [id |-> 2, user_id |-> "u1", title |-> "Review",  duration_minutes |-> 2],
    [id |-> 3, user_id |-> "u2", title |-> "Consult", duration_minutes |-> 1],
    [id |-> 4, user_id |-> "u3", title |-> "Chat",    duration_minutes |-> 1] }

\* A booking row some earlier process left cancelled.
OldCancelled ==
  [id |-> 1, meeting_type_id |-> 1, recipient_email |-> "old@example.com",
   start_time |-> 0, end_time |-> MsPerMin, status |-> "cancelled"]

\* Intervals an owner may have on the primary calendar from outside.
ExternalBusy ==
  { [owner |-> "u1", start |-> 0, end |-> MsPerMin],
    [owner |-> "u1", start |-> MsPerMin, end |-> 2 * MsPerMin],
    [owner |-> "u2", start |-> 0, end |-> MsPerMin] }

\* ------------------------------------------------------------------ inputs
\* Request bodies of POST /book.  An absent field is the empty text, which
\* `!field` treats like undefined.  meetingTypeId 0 stands for an absent id.
GoodBody(id, st) ==
  [meetingTypeId |-> id, recipient_name |-> "Ann",
   recipient_email |-> "ann@example.com", start_time |-> st]

BookBodies ==
  { GoodBody(id, st) : id \in {1, 2, 3},
                       st \in {"1970-01-01T00:00:00.000Z", "1970-01-01T00:01:00.000Z"} }
  \cup { GoodBody(2, "1970-01-01T00:01Z"),
         GoodBody(4, "1970-01-01T00:00:00.000Z"),
         GoodBody(9, "1970-01-01T00:00:00.000Z"),
         GoodBody(1, "next tuesday"),
         GoodBody(1, ""),
         GoodBody(0, "1970-01-01T00:00:00.000Z"),
         [GoodBody(1, "1970-01-01T00:00:00.000Z") EXCEPT !.recipient_name = ""],
         [GoodBody(1, "1970-01-01T00:00:00.000Z") EXCEPT !.recipient_email = ""] }

NoBody == GoodBody(0, "")

\* ------------------------------------------------------------------- state
VARIABLES
  meeting_types,   \* table meeting_types
  users,           \* table users
  oauth_tokens,    \* user ids with a row in oauth_tokens (provider google)
  bookings,        \* table bookings
  email_outbox,    \* table email_outbox, in insertion order
  postmarkSent,    \* messages handed to Postmark, in order
  calExternal,     \* busy intervals on the owners' calendars from outside
  calEvents,       \* events created by calendar.events.insert
  mailMode,        \* process.env.MAIL_MODE || "queue"
  postmark,        \* whether the Postmark client exists (POSTMARK_TOKEN set)
  book,            \* per POST /book request: where it is suspended and its locals
  avail,           \* the GET /availability request: where it is suspended and its locals
  create,          \* the POST /meeting-types request: where it is suspended and its locals
  overlapped       \* history: pairs of requests that were in flight together

vars == << meeting_types, users, oauth_tokens, bookings, email_outbox, postmarkSent,
           calExternal, calEvents, mailMode, postmark, book, avail, create, overlapped >>

storeVars == << meeting_types, users, oauth_tokens >>
envVars == << mailMode, postmark >>

\* ----------------------------------------------------------------- responses
NoResp == [status |-> 0, error |-> "", bookingId |-> 0, eventId |-> 0,
           start |-> "", end |-> ""]

ErrResp(code, msg) == [NoResp EXCEPT !.status = code, !.error = msg]

\* The locals of a handler invocation.  start and end hold getTime() of the
\* Date objects; busy is the list the freebusy call returned.
NoMt == [id |-> 0, user_id |-> "", title |-> "", duration_minutes |-> 0]

BlankLocals ==
  [pc |-> "idle", body |-> NoBody, mt |-> NoMt, hostEmail |-> "",
   start |-> NaN, end |-> NaN, busy |-> {}, eventId |-> 0, bookingId |-> 0,
   resp |-> NoResp]

\* res.status(code).json(...) followed by return: the invocation is over and
\* only the response remains.
Respond(r, resp) ==
  book' = [book EXCEPT ![r] = [BlankLocals EXCEPT !.pc = "done", !.resp = resp]]

InFlight(r) == book[r].pc \notin {"idle", "done"}


\* GET /availability?meetingTypeId&from&to: an absent parameter is the empty text.
Query(id, from, to) == [meetingTypeId |-> id, from |-> from, to |-> to]

AvailQueries ==
  { Query(id, "1970-01-01T00:00:00.000Z", to) :
      id \in {1, 2}, to \in {"1970-01-01T00:02:00.000Z", "1970-01-01T00:03:00.000Z"} }
  \cup { Query(1, "1970-01-01T00:01Z", "1970-01-01T00:03:00.000Z"),
         Query(1, "1970-01-01T00:02:00.000Z", "1970-01-01T00:00:00.000Z"),
         Query(1, "1970-01-01T00:01:00.000Z", "1970-01-01T00:01:00.000Z"),
         Query(4, "1970-01-01T00:00:00.000Z", "1970-01-01T00:02:00.000Z"),
         Query(9, "1970-01-01T00:00:00.000Z", "1970-01-01T00:02:00.000Z"),
         Query(9, "yesterday", "1970-01-01T00:02:00.000Z"),
         Query(1, "yesterday", "1970-01-01T00:02:00.000Z"),
         Query(1, "1970-01-01T00:00:00.000Z", "tomorrow"),
         Query(0, "1970-01-01T00:00:00.000Z", "1970-01-01T00:02:00.000Z"),
         Query(1, "", "1970-01-01T00:02:00.000Z"),
         Query(1, "1970-01-01T00:00:00.000Z", "") }

NoQuery == Query(0, "", "")

\* The response of GET /availability: an error, or the slots.
NoAvailResp == [status |-> 0, error |-> "", timeMin |-> "", timeMax |-> "",
                durationMinutes |-> 0, slots |-> << >>]

AvailErr(code, msg) == [NoAvailResp EXCEPT !.status = code, !.error = msg]

BlankAvail == [pc |-> "idle", q |-> NoQuery, mt |-> NoMt, timeMin |-> "", timeMax |-> "",
               busy |-> {}, t |-> 0, slots |-> << >>, resp |-> NoAvailResp]

AvailRespond(resp) == avail' = [BlankAvail EXCEPT !.pc = "done", !.resp = resp]

\* ------------------------------------------------------ POST /meeting-types
\* A JavaScript number as a fraction n/d; d = 0 stands for NaN.
Num(n, d) == [n |-> n, d |-> d]
NotANumber == Num(0, 0)

\* The values a JSON body may carry in a field: absent, a number or a string,
\* with the text of the literal.
Undefined == [type |-> "undefined", text |-> ""]
JNum(t) == [type |-> "number", text |-> t]
JStr(t) == [type |-> "string", text |-> t]

\* Number(text) of the numeric texts of the model.
NumberTable ==
  { <<"2", Num(2, 1)>>, <<"30", Num(30, 1)>>, <<"0", Num(0, 1)>>,
    <<"-5", Num(0 - 5, 1)>>, <<"1.5", Num(3, 2)>> }

\* Number(v): undefined and a non-numeric string give NaN, the empty string 0.
ToNumber(v) ==
  IF v.type = "undefined" THEN NotANumber
  ELSE IF \E p \in NumberTable : p[1] = v.text
    THEN (CHOOSE p \in NumberTable : p[1] = v.text)[2]
  ELSE IF v.type = "string" /\ v.text = "" THEN Num(0, 1)
  ELSE NotANumber

\* Number.isFinite(x)
IsFinite(x) == x.d # 0

\* !v : undefined, the empty string, the numbers 0 and NaN
Falsy(v) ==
  \/ v.type = "undefined"
  \/ v.type = "string" /\ v.text = ""
  \/ v.type = "number" /\ (~IsFinite(ToNumber(v)) \/ ToNumber(v).n = 0)

\* req.body of POST /meeting-types with the signed-in user of the session
\* cookie ("" when there is none).
TypeBody(uid, title, dm) == [userId |-> uid, title |-> title, duration_minutes |-> dm]

DurationInputs ==
  { Undefined, JNum("2"), JNum("30"), JNum("0"), JNum("-5"), JNum("1.5"),
    JStr("2"), JStr("1.5"), JStr("0"), JStr(""), JStr("abc") }

TypeBodies ==
  { TypeBody(uid, title, dm) :
      uid \in {"", "u1"}, title \in {"", "Intro"}, dm \in DurationInputs }

NoTypeBody == TypeBody("", "", Undefined)

\* The response of POST /meeting-types.
NoTypeResp == [status |-> 0, error |-> "", id |-> 0]
TypeErr(code, msg) == [NoTypeResp EXCEPT !.status = code, !.error = msg]

\* n counts the requests made so far.
BlankCreate == [pc |-> "idle", n |-> 0, body |-> NoTypeBody, dur |-> NotANumber,
                resp |-> NoTypeResp]

TypeRespond(resp) ==
  create' = [BlankCreate EXCEPT !.pc = "done", !.n = create.n, !.resp = resp]

\* ------------------------------------------------------------ pure helpers
\* A slip of the overlap test: closed intervals, so touching counts.
overlaps_Closed(aStart, aEnd, bStart, bEnd) == aStart <= bEnd /\ bStart <= aEnd

\* function overlaps(aStart, aEnd, bStart, bEnd)
overlaps(aStart, aEnd, bStart, bEnd) == aStart < bEnd /\ bStart < aEnd

\* if (!meetingTypeId || !recipient_name || !recipient_email || !start_time)
MissingBookFields(b) ==
  \/ b.meetingTypeId = 0
  \/ b.recipient_name = ""
  \/ b.recipient_email = ""
  \/ b.start_time = ""

\* A slip of the busy test: one busy interval is let through.
CalendarBusy_MoreThanOne(busy) == Cardinality(busy) > 1

\* if (busy.length > 0)
CalendarBusy(busy) == Cardinality(busy) > 0

\* The overlap query without its status filter.
OverlapRows_AnyStatus(userId, startIso, endIso) ==
  { b \in bookings :
      /\ \E m \in meeting_types : m.id = b.meeting_type_id /\ m.user_id = userId
      /\ ~ (b.end_time <= Timestamptz(startIso) \/ b.start_time >= Timestamptz(endIso)) }

\* A slip of the overlap query: NOT (end_time < $2 OR start_time > $3).
OverlapRows_Closed(userId, startIso, endIso) ==
  { b \in bookings :
      /\ \E m \in meeting_types : m.id = b.meeting_type_id /\ m.user_id = userId
      /\ b.status = "confirmed"
      /\ ~ (b.end_time < Timestamptz(startIso) \/ b.start_time > Timestamptz(endIso)) }

\* A slip of the overlap query: only rows that start inside the window.
OverlapRows_StartInside(userId, startIso, endIso) ==
  { b \in bookings :
      /\ \E m \in meeting_types : m.id = b.meeting_type_id /\ m.user_id = userId
      /\ b.status = "confirmed"
      /\ b.start_time >= Timestamptz(startIso)
      /\ b.start_time < Timestamptz(endIso) }

\* The overlap query of POST /book: confirmed bookings of the user's meeting
\* types with NOT (end_time <= $2 OR start_time >= $3).
OverlapRows(userId, startIso, endIso) ==
  { b \in bookings :
      /\ \E m \in meeting_types : m.id = b.meeting_type_id /\ m.user_id = userId
      /\ b.status = "confirmed"
      /\ ~ (b.end_time <= Timestamptz(startIso) \/ b.start_time >= Timestamptz(endIso)) }

\* const useQueue = mailMode === "queue" || !postmark
UseQueue == mailMode = "queue" \/ ~postmark

\* ------------------------------------------------- the calendar collaborator
\* What the owner's primary calendar holds as busy time: the intervals put
\* there from outside and the events this service created.
BusyOf(userId) ==
  { [start |-> i.start, end |-> i.end] : i \in {x \in calExternal : x.owner = userId} }
  \cup { [start |-> e.start, end |-> e.end] : e \in {x \in calEvents : x.owner = userId} }

\* The answers calendar.freebusy.query may give for [timeMin, timeMax]: every
\* busy interval that overlaps the window, and any of those that only touch
\* it (the provider's boundary rule is not fixed by this repository).
FreebusyResponses(userId, timeMin, timeMax) ==
  LET lo == DateParse(timeMin)
      hi == DateParse(timeMax)
      inside == { i \in BusyOf(userId) : overlaps(i.start, i.end, lo, hi) }
      touching == { i \in BusyOf(userId) : i.end = lo \/ i.start = hi }
  IN { { [start |-> ToISOString(i.start), end |-> ToISOString(i.end)] : i \in inside \cup t }
         : t \in SUBSET touching }

\* ----------------------------------------------------------------- Init
Init ==
  /\ meeting_types = MeetingTypeRows
  /\ users = UserRows
  /\ oauth_tokens = OauthRows
  /\ bookings \in { {}, {OldCancelled} }
  /\ email_outbox = << >>
  /\ postmarkSent = << >>
  /\ calExternal = {}
  /\ calEvents = {}
  /\ mailMode \in {"queue", "send"}
  /\ postmark \in BOOLEAN
  /\ avail = BlankAvail
  /\ create = BlankCreate
  /\ book = [r \in Reqs |-> BlankLocals]
  /\ overlapped = {}

\* ------------------------------------------------------------ environment
\* The owner (or anyone else) changes the primary calendar outside this service.
CalendarChange ==
  /\ \E i \in ExternalBusy :
       \/ /\ i \notin calExternal
          /\ Cardinality(calExternal) < MaxBusy
          /\ calExternal' = calExternal \cup {i}
       \/ /\ i \in calExternal
          /\ calExternal' = calExternal \ {i}
  /\ UNCHANGED << storeVars, envVars, create, avail, bookings, email_outbox, postmarkSent,
                  calEvents, book, overlapped >>

\* ---------------------------------------------------------- POST /book
\* A request reaches the server; requests are numbered in arrival order.
BookArrive(r, body) ==
  /\ book[r].pc = "idle"
  /\ \A q \in Reqs : q < r => book[q].pc # "idle"
  /\ book' = [book EXCEPT ![r].pc = "recv", ![r].body = body]
  /\ overlapped' = overlapped \cup { {r, q} : q \in {x \in Reqs : InFlight(x)} }
  /\ UNCHANGED << storeVars, envVars, create, avail, bookings, email_outbox, postmarkSent,
                  calExternal, calEvents >>

\* Lines 443-450: the field check, the parse of start_time, and the
\* meeting-type query is issued.
BookStart(r) ==
  /\ book[r].pc = "recv"
  /\ LET b == book[r].body
         start == DateParse(b.start_time)
     IN IF MissingBookFields(b)
          THEN Respond(r, ErrResp(400, "missing meetingTypeId, recipient_name, recipient_email, or start_time"))
        ELSE IF IsNaN(start)
          THEN Respond(r, ErrResp(400, "invalid start_time"))
        ELSE book' = [book EXCEPT ![r].pc = "mtQ", ![r].start = start]
  /\ UNCHANGED << storeVars, envVars, create, avail, bookings, email_outbox, postmarkSent,
                  calExternal, calEvents, overlapped >>

\* The meeting-type step without its `!mtQ.rows.length` test.
BookMtQ_NoRowCheck(r) ==
  /\ book[r].pc = "mtQ"
  /\ \E ok \in BOOLEAN :
       LET rows == { m \in meeting_types : m.id = book[r].body.meetingTypeId }
       IN IF ~ok THEN Respond(r, ErrResp(500, "query failed: meeting_types"))
          ELSE book' = [book EXCEPT ![r].pc = "hostQ",
                          ![r].mt = IF rows = {} THEN NoMt ELSE CHOOSE m \in rows : TRUE]
  /\ UNCHANGED << storeVars, envVars, create, avail, bookings, email_outbox, postmarkSent,
                  calExternal, calEvents, overlapped >>

\* Lines 450-457: the meeting-type query returns (or rejects).
BookMtQ(r) ==
  /\ book[r].pc = "mtQ"
  /\ \E ok \in BOOLEAN :
       LET rows == { m \in meeting_types : m.id = book[r].body.meetingTypeId }
       IN IF ~ok THEN Respond(r, ErrResp(500, "query failed: meeting_types"))
          ELSE IF rows = {} THEN Respond(r, ErrResp(404, "meeting type not found"))
          ELSE book' = [book EXCEPT ![r].pc = "hostQ", ![r].mt = CHOOSE m \in rows : TRUE]
  /\ UNCHANGED << storeVars, envVars, create, avail, bookings, email_outbox, postmarkSent,
                  calExternal, calEvents, overlapped >>

\* A slip of the end computation: every meeting taken to last one minute.
BookHostQ_FixedLength(r) ==
  /\ book[r].pc = "hostQ"
  /\ \E ok \in BOOLEAN :
       LET rows == { u \in users : u.id = book[r].mt.user_id }
       IN IF ~ok THEN Respond(r, ErrResp(500, "query failed: users"))
          ELSE IF rows = {} THEN Respond(r, ErrResp(500, "host user missing"))
          ELSE book' = [book EXCEPT
                 ![r].pc = "auth",
                 ![r].hostEmail = (CHOOSE u \in rows : TRUE).email,
                 ![r].end = book[r].start + 60 * 1000]
  /\ UNCHANGED << storeVars, envVars, create, avail, bookings, email_outbox, postmarkSent,
                  calExternal, calEvents, overlapped >>

\* Lines 457-466: the host query returns; end is computed; the token query
\* of getGoogleAuthForUser is issued.
BookHostQ(r) ==
  /\ book[r].pc = "hostQ"
  /\ \E ok \in BOOLEAN :
       LET rows == { u \in users : u.id = book[r].mt.user_id }
       IN IF ~ok THEN Respond(r, ErrResp(500, "query failed: users"))
          ELSE IF rows = {} THEN Respond(r, ErrResp(500, "host user missing"))
          ELSE book' = [book EXCEPT
                 ![r].pc = "auth",
                 ![r].hostEmail = (CHOOSE u \in rows : TRUE).email,
                 ![r].end = book[r].start + book[r].mt.duration_minutes * 60 * 1000]
  /\ UNCHANGED << storeVars, envVars, create, avail, bookings, email_outbox, postmarkSent,
                  calExternal, calEvents, overlapped >>

\* Lines 127-132 and 466-468: the token query returns; the freebusy query is issued.
BookAuth(r) ==
  /\ book[r].pc = "auth"
  /\ \E ok \in BOOLEAN :
       IF ~ok THEN Respond(r, ErrResp(500, "query failed: oauth_tokens"))
       ELSE IF book[r].mt.user_id \notin oauth_tokens
         THEN Respond(r, ErrResp(500, "Google not connected for user"))
       ELSE book' = [book EXCEPT ![r].pc = "fb"]
  /\ UNCHANGED << storeVars, envVars, create, avail, bookings, email_outbox, postmarkSent,
                  calExternal, calEvents, overlapped >>

\* The two conflict checks in the other order: the stored bookings are
\* looked at before the answer of the calendar.
BookFreebusy_LocalFirst(r) ==
  /\ book[r].pc = "fb"
  /\ \E ok \in BOOLEAN :
       IF ~ok THEN Respond(r, ErrResp(500, "freebusy.query failed"))
       ELSE \E busy \in FreebusyResponses(book[r].mt.user_id,
                                          ToISOString(book[r].start),
                                          ToISOString(book[r].end)) :
              IF OverlapRows(book[r].mt.user_id, ToISOString(book[r].start),
                             ToISOString(book[r].end)) # {}
                THEN Respond(r, ErrResp(409, "slot not available (existing booking)"))
              ELSE IF CalendarBusy(busy)
                THEN Respond(r, ErrResp(409, "slot not available (calendar busy)"))
              ELSE book' = [book EXCEPT ![r].pc = "overlapQ", ![r].busy = busy]
  /\ UNCHANGED << storeVars, envVars, create, avail, bookings, email_outbox, postmarkSent,
                  calExternal, calEvents, overlapped >>

\* Lines 468-475: the freebusy query over [startIso, endIso] returns.
BookFreebusy(r) ==
  /\ book[r].pc = "fb"
  /\ \E ok \in BOOLEAN :
       IF ~ok THEN Respond(r, ErrResp(500, "freebusy.query failed"))
       ELSE \E busy \in FreebusyResponses(book[r].mt.user_id,
                                          ToISOString(book[r].start),
                                          ToISOString(book[r].end)) :
              IF CalendarBusy(busy)
                THEN Respond(r, ErrResp(409, "slot not available (calendar busy)"))
              ELSE book' = [book EXCEPT ![r].pc = "overlapQ", ![r].busy = busy]
  /\ UNCHANGED << storeVars, envVars, create, avail, bookings, email_outbox, postmarkSent,
                  calExternal, calEvents, overlapped >>

\* Lines 475-488: the overlap query returns.
BookOverlapQ(r) ==
  /\ book[r].pc = "overlapQ"
  /\ \E ok \in BOOLEAN :
       IF ~ok THEN Respond(r, ErrResp(500, "query failed: bookings"))
       ELSE IF OverlapRows(book[r].mt.user_id, ToISOString(book[r].start),
                           ToISOString(book[r].end)) # {}
         THEN Respond(r, ErrResp(409, "slot not available (existing booking)"))
       ELSE book' = [book EXCEPT ![r].pc = "evIns"]
  /\ UNCHANGED << storeVars, envVars, create, avail, bookings, email_outbox, postmarkSent,
                  calExternal, calEvents, overlapped >>


\* The event step with the insert sent a second time: two events are created.
BookEventInsert_Twice(r) ==
  /\ book[r].pc = "evIns"
  /\ \E ok \in BOOLEAN :
       IF ~ok
         THEN /\ Respond(r, ErrResp(500, "events.insert failed"))
              /\ UNCHANGED calEvents
       ELSE LET id == Cardinality(calEvents) + 1
                ev(k) == [id |-> k, owner |-> book[r].mt.user_id,
                          start |-> DateParse(ToISOString(book[r].start)),
                          end |-> DateParse(ToISOString(book[r].end)),
                          attendees |-> << book[r].hostEmail, book[r].body.recipient_email >>]
            IN /\ calEvents' = calEvents \cup { ev(id), ev(id + 1) }
               /\ book' = [book EXCEPT ![r].pc = "bkIns", ![r].eventId = id + 1]
  /\ UNCHANGED << storeVars, envVars, create, avail, bookings, email_outbox, postmarkSent,
                  calExternal, overlapped >>

\* The event step with a failed events.insert swallowed.
BookEventInsert_Swallow(r) ==
  /\ book[r].pc = "evIns"
  /\ \E ok \in BOOLEAN :
       LET id == Cardinality(calEvents) + 1
       IN /\ calEvents' = IF ok
               THEN calEvents \cup
                     { [id |-> id, owner |-> book[r].mt.user_id,
                        start |-> DateParse(ToISOString(book[r].start)),
                        end |-> DateParse(ToISOString(book[r].end)),
                        attendees |-> << book[r].hostEmail, book[r].body.recipient_email >>] }
               ELSE calEvents
          /\ book' = [book EXCEPT ![r].pc = "bkIns", ![r].eventId = IF ok THEN id ELSE 0]
  /\ UNCHANGED << storeVars, envVars, create, avail, bookings, email_outbox, postmarkSent,
                  calExternal, overlapped >>

\* Lines 488-503: calendar.events.insert returns; the booking INSERT is issued.
BookEventInsert(r) ==
  /\ book[r].pc = "evIns"
  /\ \E ok \in BOOLEAN :
       IF ~ok
         THEN /\ Respond(r, ErrResp(500, "events.insert failed"))
              /\ UNCHANGED calEvents
       ELSE LET id == Cardinality(calEvents) + 1
            IN /\ calEvents' = calEvents \cup
                     { [id |-> id, owner |-> book[r].mt.user_id,
                        start |-> DateParse(ToISOString(book[r].start)),
                        end |-> DateParse(ToISOString(book[r].end)),
                        attendees |-> << book[r].hostEmail, book[r].body.recipient_email >>] }
               /\ book' = [book EXCEPT ![r].pc = "bkIns", ![r].eventId = id]
  /\ UNCHANGED << storeVars, envVars, create, avail, bookings, email_outbox, postmarkSent,
                  calExternal, overlapped >>

\* The booking step with a compensating delete of the event when the INSERT fails.
BookInsert_Compensate(r) ==
  /\ book[r].pc = "bkIns"
  /\ \E ok \in BOOLEAN :
       IF ~ok
         THEN /\ Respond(r, ErrResp(500, "insert failed: bookings"))
              /\ calEvents' = { e \in calEvents : e.id # book[r].eventId }
              /\ UNCHANGED bookings
       ELSE LET id == Cardinality(bookings) + 1
            IN /\ bookings' = bookings \cup
                     { [id |-> id, meeting_type_id |-> book[r].body.meetingTypeId,
                        recipient_email |-> book[r].body.recipient_email,
                        start_time |-> Timestamptz(ToISOString(book[r].start)),
                        end_time |-> Timestamptz(ToISOString(book[r].end)),
                        status |-> "confirmed"] }
               /\ book' = [book EXCEPT ![r].pc = "mail1", ![r].bookingId = id]
               /\ UNCHANGED calEvents
  /\ UNCHANGED << storeVars, envVars, create, avail, email_outbox, postmarkSent,
                  calExternal, overlapped >>

\* Lines 503-511: the booking INSERT returns; the first sendEmail is called.
BookInsert(r) ==
  /\ book[r].pc = "bkIns"
  /\ \E ok \in BOOLEAN :
       IF ~ok
         THEN /\ Respond(r, ErrResp(500, "insert failed: bookings"))
              /\ UNCHANGED bookings
       ELSE LET id == Cardinality(bookings) + 1
            IN /\ bookings' = bookings \cup
                     { [id |-> id, meeting_type_id |-> book[r].body.meetingTypeId,
                        recipient_email |-> book[r].body.recipient_email,
                        start_time |-> Timestamptz(ToISOString(book[r].start)),
                        end_time |-> Timestamptz(ToISOString(book[r].end)),
                        status |-> "confirmed"] }
               /\ book' = [book EXCEPT ![r].pc = "mail1", ![r].bookingId = id]
  /\ UNCHANGED << storeVars, envVars, create, avail, email_outbox, postmarkSent,
                  calExternal, calEvents, overlapped >>

\* The two sendEmail calls in the other order.
MailTo_HostFirst(r) == IF book[r].pc \in {"mail1", "mail1log"}
                         THEN book[r].hostEmail ELSE book[r].body.recipient_email

\* The two sendEmail calls of POST /book, lines 511-520: recipient, then host.
MailTo(r) == IF book[r].pc \in {"mail1", "mail1log"}
               THEN book[r].body.recipient_email ELSE book[r].hostEmail

MailSubject(r) == IF book[r].pc \in {"mail1", "mail1log"} THEN "Confirmed" ELSE "New booking"

OutboxRow(r, status) ==
  [to_email |-> MailTo(r), from_email |-> "service@setthetime.com",
   subject |-> MailSubject(r), event |-> book[r].eventId, status |-> status]

\* return res.json({ ok: true, bookingId, eventId, start: startIso, end: endIso })
BookOk(r) ==
  [status |-> 200, error |-> "", bookingId |-> book[r].bookingId,
   eventId |-> book[r].eventId, start |-> ToISOString(book[r].start),
   end |-> ToISOString(book[r].end)]

\* What follows a sendEmail call that returned.
AfterMail(r) ==
  IF book[r].pc \in {"mail1", "mail1log"}
    THEN book' = [book EXCEPT ![r].pc = "mail2"]
    ELSE Respond(r, BookOk(r))

\* sendEmail, lines 58-64: its first await returns: the INSERT of queueEmail
\* in queue mode, postmark.sendEmail otherwise.
BookMail(r) ==
  /\ book[r].pc \in {"mail1", "mail2"}
  /\ \E ok \in BOOLEAN :
       IF UseQueue
         THEN IF ~ok
                THEN /\ Respond(r, ErrResp(500, "insert failed: email_outbox"))
                     /\ UNCHANGED << email_outbox, postmarkSent >>
              ELSE /\ email_outbox' = Append(email_outbox, OutboxRow(r, "queued"))
                   /\ AfterMail(r)
                   /\ UNCHANGED postmarkSent
       ELSE IF ~ok
                THEN /\ Respond(r, ErrResp(500, "postmark.sendEmail failed"))
                     /\ UNCHANGED << email_outbox, postmarkSent >>
            ELSE /\ postmarkSent' = Append(postmarkSent, [to |-> MailTo(r), subject |-> MailSubject(r), event |-> book[r].eventId])
                 /\ book' = [book EXCEPT ![r].pc = IF book[r].pc = "mail1" THEN "mail1log" ELSE "mail2log"]
                 /\ UNCHANGED email_outbox
  /\ UNCHANGED << storeVars, envVars, create, avail, bookings, calExternal, calEvents, overlapped >>

\* sendEmail, lines 65-70: the INSERT of the 'sent' row returns.
BookMailLog(r) ==
  /\ book[r].pc \in {"mail1log", "mail2log"}
  /\ \E ok \in BOOLEAN :
       IF ~ok
         THEN /\ Respond(r, ErrResp(500, "insert failed: email_outbox"))
              /\ UNCHANGED email_outbox
       ELSE /\ email_outbox' = Append(email_outbox, OutboxRow(r, "sent"))
            /\ AfterMail(r)
  /\ UNCHANGED << storeVars, envVars, create, avail, bookings, postmarkSent, calExternal,
                  calEvents, overlapped >>

\* ------------------------------------------------------ GET /availability
\* if (!meetingTypeId || !fromIso || !toIso)
MissingAvailParams(q) == q.meetingTypeId = 0 \/ q.from = "" \/ q.to = ""

\* The slot loop, lines 422-429:
\*   for (let t = startMs; t + stepMs <= endMs; t += stepMs)
\* with busy the freebusy list mapped to Date objects.
RECURSIVE SlotLoop(_, _, _, _)

\* A slip of the loop bound: t + stepMs < endMs drops the slot that ends
\* exactly at the end of the window.
SlotLoop_StrictFit(t, stepMs, endMs, busy) ==
  IF t + stepMs < endMs
    THEN LET conflict == \E b \in busy :
                           overlaps(t, t + stepMs, DateParse(b.start), DateParse(b.end))
             rest == SlotLoop(t + stepMs, stepMs, endMs, busy)
         IN IF conflict THEN rest
            ELSE << [start |-> ToISOString(t), end |-> ToISOString(t + stepMs)] >> \o rest
  ELSE << >>

\* A slip of the loop bound: t < endMs lets a last slot run past the window.
SlotLoop_PastEnd(t, stepMs, endMs, busy) ==
  IF t < endMs
    THEN LET conflict == \E b \in busy :
                           overlaps(t, t + stepMs, DateParse(b.start), DateParse(b.end))
             rest == SlotLoop(t + stepMs, stepMs, endMs, busy)
         IN IF conflict THEN rest
            ELSE << [start |-> ToISOString(t), end |-> ToISOString(t + stepMs)] >> \o rest
  ELSE << >>

\* A slip of the inner break: a conflict ends the whole loop.
SlotLoop_StopAtConflict(t, stepMs, endMs, busy) ==
  IF t + stepMs <= endMs
    THEN LET conflict == \E b \in busy :
                           overlaps(t, t + stepMs, DateParse(b.start), DateParse(b.end))
             rest == SlotLoop(t + stepMs, stepMs, endMs, busy)
         IN IF conflict THEN << >>
            ELSE << [start |-> ToISOString(t), end |-> ToISOString(t + stepMs)] >> \o rest
  ELSE << >>

\* A slip of the conflict test: only the start of the slot is looked up in
\* the busy intervals.
SlotLoop_StartOnly(t, stepMs, endMs, busy) ==
  IF t + stepMs <= endMs
    THEN LET conflict == \E b \in busy : DateParse(b.start) <= t /\ t < DateParse(b.end)
             rest == SlotLoop(t + stepMs, stepMs, endMs, busy)
         IN IF conflict THEN rest
            ELSE << [start |-> ToISOString(t), end |-> ToISOString(t + stepMs)] >> \o rest
  ELSE << >>

SlotLoop(t, stepMs, endMs, busy) ==
  IF t + stepMs <= endMs
    THEN LET conflict == \E b \in busy :
                           overlaps(t, t + stepMs, DateParse(b.start), DateParse(b.end))
             rest == SlotLoop(t + stepMs, stepMs, endMs, busy)
         IN IF conflict THEN rest
            ELSE << [start |-> ToISOString(t), end |-> ToISOString(t + stepMs)] >> \o rest
  ELSE << >>

\* A slip of scope: `slots` declared outside the handler, so each request
\* appends to what the one before it pushed.
Slots_SharedArray(timeMin, timeMax, duration_minutes, busy) ==
  avail.resp.slots
    \o SlotLoop(DateParse(timeMin), duration_minutes * 60 * 1000, DateParse(timeMax), busy)

\* Lines 417-422 and the loop: the slots of a window for a duration.
Slots(timeMin, timeMax, duration_minutes, busy) ==
  LET durMin == duration_minutes
      stepMs == durMin * 60 * 1000
      startMs == DateParse(timeMin)
      endMs == DateParse(timeMax)
  IN SlotLoop(startMs, stepMs, endMs, busy)

AvailArrive(q) ==
  /\ avail.pc = "idle"
  /\ avail' = [avail EXCEPT !.pc = "recv", !.q = q]
  /\ UNCHANGED << storeVars, envVars, create, bookings, email_outbox, postmarkSent,
                  calExternal, calEvents, book, overlapped >>

\* Lines 387-394: the parameter check; the meeting-type query is issued.
AvailStart ==
  /\ avail.pc = "recv"
  /\ IF MissingAvailParams(avail.q)
       THEN AvailRespond(AvailErr(400, "missing meetingTypeId, from, or to"))
     ELSE avail' = [avail EXCEPT !.pc = "mtQ"]
  /\ UNCHANGED << storeVars, envVars, create, bookings, email_outbox, postmarkSent,
                  calExternal, calEvents, book, overlapped >>

\* Lines 394-403: the meeting-type query returns; the token query is issued.
AvailMtQ ==
  /\ avail.pc = "mtQ"
  /\ \E ok \in BOOLEAN :
       LET rows == { m \in meeting_types : m.id = avail.q.meetingTypeId }
       IN IF ~ok THEN AvailRespond(AvailErr(500, "query failed: meeting_types"))
          ELSE IF rows = {} THEN AvailRespond(AvailErr(404, "meeting type not found"))
          ELSE avail' = [avail EXCEPT !.pc = "auth", !.mt = CHOOSE m \in rows : TRUE]
  /\ UNCHANGED << storeVars, envVars, create, bookings, email_outbox, postmarkSent,
                  calExternal, calEvents, book, overlapped >>

\* Lines 403-409: the token query returns; from and to go through
\* new Date(..).toISOString(), which throws on an invalid Date (the catch of
\* line 432 answers 500); the freebusy query is issued.
AvailAuth ==
  /\ avail.pc = "auth"
  /\ \E ok \in BOOLEAN :
       IF ~ok THEN AvailRespond(AvailErr(500, "query failed: oauth_tokens"))
       ELSE IF avail.mt.user_id \notin oauth_tokens
         THEN AvailRespond(AvailErr(500, "Google not connected for user"))
       ELSE IF IsNaN(DateParse(avail.q.from)) \/ IsNaN(DateParse(avail.q.to))
         THEN AvailRespond(AvailErr(500, "Invalid time value"))
       ELSE avail' = [avail EXCEPT !.pc = "fb",
                                   !.timeMin = ToISOString(DateParse(avail.q.from)),
                                   !.timeMax = ToISOString(DateParse(avail.q.to))]
  /\ UNCHANGED << storeVars, envVars, create, bookings, email_outbox, postmarkSent,
                  calExternal, calEvents, book, overlapped >>

\* Lines 409-431: the freebusy query returns; the slots are computed and sent.
AvailFreebusy ==
  /\ avail.pc = "fb"
  /\ \E ok \in BOOLEAN :
       IF ~ok THEN AvailRespond(AvailErr(500, "freebusy.query failed"))
       ELSE \E busy \in FreebusyResponses(avail.mt.user_id, avail.timeMin, avail.timeMax) :
              AvailRespond([status |-> 200, error |-> "",
                            timeMin |-> avail.timeMin, timeMax |-> avail.timeMax,
                            durationMinutes |-> avail.mt.duration_minutes,
                            slots |-> Slots(avail.timeMin, avail.timeMax,
                                            avail.mt.duration_minutes, busy)])
  /\ UNCHANGED << storeVars, envVars, create, bookings, email_outbox, postmarkSent,
                  calExternal, calEvents, book, overlapped >>

\* The same handler with the slot loop taken one iteration at a time.
\* Lines 409-422: the freebusy query returns; the loop starts at startMs.
AvailLoopStart ==
  /\ avail.pc = "fb"
  /\ \E ok \in BOOLEAN :
       IF ~ok THEN AvailRespond(AvailErr(500, "freebusy.query failed"))
       ELSE \E busy \in FreebusyResponses(avail.mt.user_id, avail.timeMin, avail.timeMax) :
              avail' = [avail EXCEPT !.pc = "loop", !.busy = busy,
                                     !.t = DateParse(avail.timeMin), !.slots = << >>]
  /\ UNCHANGED << storeVars, envVars, create, bookings, email_outbox, postmarkSent,
                  calExternal, calEvents, book, overlapped >>

\* An iteration that leaves t where it is.
AvailLoopIter_NoAdvance ==
  /\ avail.pc = "loop"
  /\ LET stepMs == avail.mt.duration_minutes * 60 * 1000
         endMs == DateParse(avail.timeMax)
         t == avail.t
         conflict == \E b \in avail.busy :
                       overlaps(t, t + stepMs, DateParse(b.start), DateParse(b.end))
     IN /\ t + stepMs <= endMs
        /\ avail' = [avail EXCEPT
              !.slots = IF conflict THEN @
                        ELSE Append(@, [start |-> ToISOString(t),
                                        end |-> ToISOString(t + stepMs)])]
  /\ UNCHANGED << storeVars, envVars, create, bookings, email_outbox, postmarkSent,
                  calExternal, calEvents, book, overlapped >>

\* Lines 422-429: one iteration, `t + stepMs <= endMs` being true; t += stepMs.
AvailLoopIter ==
  /\ avail.pc = "loop"
  /\ LET stepMs == avail.mt.duration_minutes * 60 * 1000
         endMs == DateParse(avail.timeMax)
         t == avail.t
         conflict == \E b \in avail.busy :
                       overlaps(t, t + stepMs, DateParse(b.start), DateParse(b.end))
     IN /\ t + stepMs <= endMs
        /\ avail' = [avail EXCEPT
              !.t = t + stepMs,
              !.slots = IF conflict THEN @
                        ELSE Append(@, [start |-> ToISOString(t),
                                        end |-> ToISOString(t + stepMs)])]
  /\ UNCHANGED << storeVars, envVars, create, bookings, email_outbox, postmarkSent,
                  calExternal, calEvents, book, overlapped >>

\* Lines 422 and 431: `t + stepMs <= endMs` is false; the slots are sent.
AvailLoopEnd ==
  /\ avail.pc = "loop"
  /\ ~(avail.t + avail.mt.duration_minutes * 60 * 1000 <= DateParse(avail.timeMax))
  /\ AvailRespond([status |-> 200, error |-> "",
                   timeMin |-> avail.timeMin, timeMax |-> avail.timeMax,
                   durationMinutes |-> avail.mt.duration_minutes,
                   slots |-> avail.slots])
  /\ UNCHANGED << storeVars, envVars, create, bookings, email_outbox, postmarkSent,
                  calExternal, calEvents, book, overlapped >>

AvailStep ==
  \/ AvailStart
  \/ AvailMtQ
  \/ AvailAuth
  \/ AvailFreebusy

BookStep(r) ==
  \/ BookStart(r)
  \/ BookMtQ(r)
  \/ BookHostQ(r)
  \/ BookAuth(r)
  \/ BookFreebusy(r)
  \/ BookOverlapQ(r)
  \/ BookEventInsert(r)
  \/ BookInsert(r)
  \/ BookMail(r)
  \/ BookMailLog(r)

Next ==
  \/ CalendarChange
  \/ \E r \in Reqs, body \in BookBodies : BookArrive(r, body)
  \/ \E r \in Reqs : BookStep(r)

Spec == Init /\ [][Next]_vars

\* One booking request beside one availability request.
NextAvail ==
  \/ CalendarChange
  \/ \E body \in BookBodies : BookArrive(1, body)
  \/ BookStep(1)
  \/ \E q \in AvailQueries : AvailArrive(q)
  \/ AvailStep

SpecAvail == Init /\ [][NextAvail]_vars

\* ------------------------------------------- availability over many windows
\* The availability handler alone, asked again and again, over a calendar
\* that holds up to MaxSlotBusy outside intervals of owner u1 from the start.
MaxSlotBusy == 2

\* A half-hour meeting type of u1 beside the rows above.
SlotMeetingTypeRows ==
  MeetingTypeRows
    \cup { [id |-> 5, user_id |-> "u1", title |-> "Workshop", duration_minutes |-> 30] }

GridTimes ==
  { "1970-01-01T00:00:00.000Z", "1970-01-01T00:01:00.000Z", "1970-01-01T00:02:00.000Z",
    "1970-01-01T00:03:00.000Z", "1970-01-01T00:04:00.000Z" }

\* Every window over the grid, reversed and empty ones too, and two windows
\* of the morning for the half-hour type.
SlotQueries ==
  { Query(id, from, to) : id \in {1, 2}, from \in GridTimes, to \in GridTimes }
  \cup { Query(5, "1970-01-01T09:00:00.000Z", "1970-01-01T10:00:00.000Z"),
         Query(5, "1970-01-01T09:00:00.000Z", "1970-01-01T09:45:00.000Z") }

\* Intervals on u1's calendar: on the minute grid, across it, and in the morning.
SlotBusy ==
  { [owner |-> "u1", start |-> 0, end |-> MsPerMin],
    [owner |-> "u1", start |-> MsPerMin, end |-> 2 * MsPerMin],
    [owner |-> "u1", start |-> MsPerMin, end |-> 3 * MsPerMin],
    [owner |-> "u1", start |-> 3 * MsPerMin, end |-> 4 * MsPerMin],
    [owner |-> "u1", start |-> 30 * 1000, end |-> 90 * 1000],
    [owner |-> "u1", start |-> 540 * MsPerMin, end |-> 570 * MsPerMin],
    [owner |-> "u1", start |-> 555 * MsPerMin, end |-> 585 * MsPerMin] }

InitSlots ==
  /\ meeting_types = SlotMeetingTypeRows
  /\ users = UserRows
  /\ oauth_tokens = OauthRows
  /\ bookings = {}
  /\ email_outbox = << >>
  /\ postmarkSent = << >>
  /\ calExternal \in { s \in SUBSET SlotBusy : Cardinality(s) <= MaxSlotBusy }
  /\ calEvents = {}
  /\ mailMode = "queue"
  /\ postmark = FALSE
  /\ avail = BlankAvail
  /\ create = BlankCreate
  /\ book = [r \in Reqs |-> BlankLocals]
  /\ overlapped = {}

\* The client asks again; the response it holds stays until the next one.
AvailAgain(q) ==
  /\ avail.pc = "done"
  /\ avail' = [avail EXCEPT !.pc = "recv", !.q = q]
  /\ UNCHANGED << storeVars, envVars, create, bookings, email_outbox, postmarkSent,
                  calExternal, calEvents, book, overlapped >>

NextSlots ==
  \/ \E q \in SlotQueries : AvailArrive(q)
  \/ \E q \in SlotQueries : AvailAgain(q)
  \/ AvailStep

SpecSlots == InitSlots /\ [][NextSlots]_vars

\* The handler once, its slot loop iteration by iteration.  The loop is
\* synchronous code and the awaits before it are answered or fail: a
\* request that can take a step takes one.
NextLoop ==
  \/ \E q \in SlotQueries : AvailArrive(q)
  \/ AvailStart
  \/ AvailMtQ
  \/ AvailAuth
  \/ AvailLoopStart
  \/ AvailLoopIter
  \/ AvailLoopEnd

SpecLoop ==
  InitSlots /\ [][NextLoop]_vars
    /\ WF_vars(AvailStart \/ AvailMtQ \/ AvailAuth \/ AvailLoopStart
                 \/ AvailLoopIter \/ AvailLoopEnd)

\* ------------------------------------------- the owner edits the calendar
\* The owner deletes from the primary calendar an event this service created.
CalendarEventRemoved ==
  /\ \E e \in calEvents : calEvents' = calEvents \ {e}
  /\ UNCHANGED << storeVars, envVars, create, avail, bookings, email_outbox, postmarkSent,
                  calExternal, book, overlapped >>

\* One booking request beside one availability request, with an owner who
\* also deletes events.
NextOwner ==
  \/ NextAvail
  \/ CalendarEventRemoved

SpecOwner == Init /\ [][NextOwner]_vars
\* --------------------------------------- one request against an older row
\* One POST /book request over a store that holds one booking row of an
\* earlier request whose calendar event is no longer on the calendar.
PriorRows ==
  { [id |-> 1, meeting_type_id |-> m.id, recipient_email |-> "old@example.com",
     start_time |-> s * MsPerMin, end_time |-> (s + m.duration_minutes) * MsPerMin,
     status |-> st] :
      m \in { x \in MeetingTypeRows : x.id \in {1, 2, 3} },
      s \in 0..3, st \in {"confirmed", "cancelled"} }

OverlapBodies ==
  { GoodBody(id, st) : id \in {1, 2},
                       st \in { "1970-01-01T00:00:00.000Z", "1970-01-01T00:01:00.000Z",
                                "1970-01-01T00:02:00.000Z", "1970-01-01T00:03:00.000Z" } }

InitOverlap ==
  /\ meeting_types = MeetingTypeRows
  /\ users = UserRows
  /\ oauth_tokens = OauthRows
  /\ bookings \in { {b} : b \in PriorRows }
  /\ email_outbox = << >>
  /\ postmarkSent = << >>
  /\ calExternal = {}
  /\ calEvents = {}
  /\ mailMode \in {"queue", "send"}
  /\ postmark \in BOOLEAN
  /\ avail = BlankAvail
  /\ create = BlankCreate
  /\ book = [r \in Reqs |-> BlankLocals]
  /\ overlapped = {}

NextOverlap ==
  \/ \E body \in OverlapBodies : BookArrive(1, body)
  \/ BookStep(1)

SpecOverlap == InitOverlap /\ [][NextOverlap]_vars
\* ------------------------------------------------- creating meeting types
\* POST /meeting-types requests over the life of a run, one after another.
MaxCreates == 2

TypeArrive(body) ==
  /\ create.pc \in {"idle", "done"}
  /\ create.n < MaxCreates
  /\ create' = [BlankCreate EXCEPT !.pc = "recv", !.n = create.n + 1, !.body = body]
  /\ UNCHANGED << storeVars, envVars, avail, bookings, email_outbox, postmarkSent,
                  calExternal, calEvents, book, overlapped >>

\* Lines 102-107 and 346-357: requireAuth, the two field tests, and the
\* INSERT is issued.
TypeStart ==
  /\ create.pc = "recv"
  /\ LET dur == ToNumber(create.body.duration_minutes)
     IN IF create.body.userId = ""
          THEN TypeRespond(TypeErr(401, "unauthorized"))
        ELSE IF create.body.title = "" \/ Falsy(create.body.duration_minutes)
          THEN TypeRespond(TypeErr(400, "missing title or duration_minutes"))
        ELSE IF ~IsFinite(dur) \/ dur.n <= 0
          THEN TypeRespond(TypeErr(400, "invalid duration_minutes"))
        ELSE create' = [create EXCEPT !.pc = "ins", !.dur = dur]
  /\ UNCHANGED << storeVars, envVars, avail, bookings, email_outbox, postmarkSent,
                  calExternal, calEvents, book, overlapped >>

\* Lines 357-364: the INSERT returns.  The type of the column
\* duration_minutes is not in this repository: the row is stored with the
\* number it was given, or the INSERT is refused and the catch answers 500.
TypeInsert ==
  /\ create.pc = "ins"
  /\ \E ok \in BOOLEAN :
       IF ~ok
         THEN /\ TypeRespond(TypeErr(500, "insert failed: meeting_types"))
              /\ UNCHANGED meeting_types
       ELSE LET id == Cardinality(meeting_types) + 1
            IN /\ meeting_types' = meeting_types \cup
                     { [id |-> id, user_id |-> create.body.userId,
                        title |-> create.body.title, duration_minutes |-> create.dur] }
               /\ TypeRespond([status |-> 200, error |-> "", id |-> id])
  /\ UNCHANGED << users, oauth_tokens, envVars, avail, bookings, email_outbox,
                  postmarkSent, calExternal, calEvents, book, overlapped >>

\* A store without meeting types yet; a row's duration_minutes is the
\* number POST /meeting-types stored, as a fraction.
InitTypes ==
  /\ meeting_types = {}
  /\ users = UserRows
  /\ oauth_tokens = OauthRows
  /\ bookings = {}
  /\ email_outbox = << >>
  /\ postmarkSent = << >>
  /\ calExternal = {}
  /\ calEvents = {}
  /\ mailMode = "queue"
  /\ postmark = FALSE
  /\ avail = BlankAvail
  /\ create = BlankCreate
  /\ book = [r \in Reqs |-> BlankLocals]
  /\ overlapped = {}

NextTypes ==
  \/ \E body \in TypeBodies : TypeArrive(body)
  \/ TypeStart
  \/ TypeInsert

SpecTypes == InitTypes /\ [][NextTypes]_vars
\* ------------------------------------------------ requests one at a time
\* A POST /book request arrives only when no other one is in flight; the
\* calendar changes as before and the owner may delete events.
BookArriveAlone(r, body) ==
  /\ \A q \in Reqs : ~InFlight(q)
  /\ BookArrive(r, body)

NextSeq ==
  \/ CalendarChange
  \/ CalendarEventRemoved
  \/ \E r \in Reqs, body \in BookBodies : BookArriveAlone(r, body)
  \/ \E r \in Reqs : BookStep(r)

SpecSeq == Init /\ [][NextSeq]_vars

\* =================================================================== claims
\* The owner of a booking row: the user_id of its meeting type.
OwnerOf(b) == (CHOOSE m \in meeting_types : m.id = b.meeting_type_id).user_id

ConfirmedRows == { b \in bookings : b.status = "confirmed" }

\* Request r ended in the success response and its row is in the store.
Succeeded(r) ==
  /\ book[r].pc = "done"
  /\ book[r].resp.status = 200
  /\ \E b \in ConfirmedRows : b.id = book[r].resp.bookingId

RowOf(r) == CHOOSE b \in bookings : b.id = book[r].resp.bookingId

\* C1: no two confirmed bookings of one owner have overlapping half-open
\* intervals [start, end), whatever the interleaving of the POST /book steps.
C1_NoOverlappingConfirmed ==
  \A b1, b2 \in ConfirmedRows :
    (b1 # b2 /\ OwnerOf(b1) = OwnerOf(b2))
      => ~ overlaps(b1.start_time, b1.end_time, b2.start_time, b2.end_time)

\* C2: of two POST /book requests for the same meeting type and the same
\* start_time that were in flight together, at most one ends with a confirmed
\* row and the success response.
C2_AtMostOneConfirmed ==
  \A r, q \in Reqs :
    (r # q /\ {r, q} \in overlapped /\ Succeeded(r) /\ Succeeded(q))
      => ~ ( /\ RowOf(r).meeting_type_id = RowOf(q).meeting_type_id
             /\ RowOf(r).start_time = RowOf(q).start_time )


\* What a booking commits: the rows, the mail and the calendar events.
Effects == << bookings, email_outbox, postmarkSent, calEvents >>

\* Request r takes the step it was suspended on at `at`.
Left(r, at) == book[r].pc = at /\ book'[r].pc # at

\* Where a request is once both checks have passed.
CommitPcs == {"evIns", "bkIns", "mail1", "mail1log", "mail2", "mail2log"}
MailPcs == {"mail1", "mail1log", "mail2", "mail2log"}

\* The owner's calendar holds busy time overlapping the window r asks for.
CalendarOverlap(r) ==
  \E i \in BusyOf(book[r].mt.user_id) :
    overlaps(i.start, i.end, book[r].start, book[r].end)

\* No interval of the list a freebusy call returned overlaps r's window.
ReportedFree(busy, r) ==
  \A i \in busy : ~ overlaps(DateParse(i.start), DateParse(i.end), book[r].start, book[r].end)

\* C3: each request makes its own freebusy query before it creates an event
\* or inserts a row; when the calendar holds an interval overlapping the
\* window the request ends there with the calendar-conflict 409 (or the 500
\* of a failed query) and nothing is created, inserted or mailed; a request
\* goes on to commit only with a list of its own that reported no overlap.
C3_FreshBusyCheck ==
  [][ /\ \A r \in Reqs :
           /\ Left(r, "fb") =>
                /\ UNCHANGED Effects
                /\ book'[r].pc \in {"overlapQ", "done"}
                /\ CalendarOverlap(r) =>
                     /\ book'[r].pc = "done"
                     /\ book'[r].resp \in
                          { ErrResp(409, "slot not available (calendar busy)"),
                            ErrResp(500, "freebusy.query failed") }
                /\ book'[r].pc = "overlapQ" =>
                     /\ book'[r].busy \in FreebusyResponses(book[r].mt.user_id,
                            ToISOString(book[r].start), ToISOString(book[r].end))
                     /\ ReportedFree(book'[r].busy, r)
           /\ (book'[r].pc = "overlapQ" /\ book[r].pc # "overlapQ") => book[r].pc = "fb"
           /\ (book'[r].pc \in CommitPcs /\ book[r].pc \notin CommitPcs)
                => (book[r].pc = "overlapQ" /\ ReportedFree(book[r].busy, r))
           /\ (book[r].pc \in CommitPcs /\ book'[r].pc \in CommitPcs)
                => book'[r].busy = book[r].busy
      /\ Effects' # Effects =>
           \E r \in Reqs : book[r].pc \in CommitPcs /\ book'[r] # book[r]
    ]_vars

C3_Witness ==
  \E r \in Reqs :
    /\ book[r].pc = "done"
    /\ book[r].resp = ErrResp(409, "slot not available (calendar busy)")

\* A confirmed booking of r's owner overlaps r's window (half-open test).
LocalOverlap(r) ==
  \E b \in ConfirmedRows :
    /\ OwnerOf(b) = book[r].mt.user_id
    /\ overlaps(b.start_time, b.end_time, book[r].start, book[r].end)

\* C4: when the overlap query of a request returns, the request is rejected
\* with the existing-booking 409 exactly when a confirmed booking of the same
\* owner, under any of the owner's meeting types, overlaps its window; the
\* rejection creates, inserts and mails nothing; cancelled rows and rows of
\* other owners do not reject.
C4_LocalConflict ==
  [][ \A r \in Reqs :
        Left(r, "overlapQ") =>
          /\ UNCHANGED Effects
          /\ LocalOverlap(r) =>
               /\ book'[r].pc = "done"
               /\ book'[r].resp \in
                    { ErrResp(409, "slot not available (existing booking)"),
                      ErrResp(500, "query failed: bookings") }
          /\ ~ LocalOverlap(r) =>
               \/ book'[r].pc = "evIns"
               \/ /\ book'[r].pc = "done"
                  /\ book'[r].resp = ErrResp(500, "query failed: bookings")
    ]_vars

C4_Witness ==
  \E r \in Reqs :
    /\ book[r].pc = "done"
    /\ book[r].resp = ErrResp(409, "slot not available (existing booking)")

\* Request r carries a meeting type id that no row of meeting_types has.
UnknownId(r) ==
  /\ InFlight(r)
  /\ ~ MissingBookFields(book[r].body)
  /\ book[r].body.meetingTypeId \notin { m.id : m \in meeting_types }

\* C5: a request whose meeting type id is not in the store ends at the
\* meeting-type query with 404 (or with the 500 of that query failing); it
\* never gets to the freebusy query, creates no event, inserts nothing and
\* mails nothing.
C5_UnknownMeetingType ==
  [][ \A r \in Reqs :
        /\ (UnknownId(r) /\ Left(r, "mtQ")) =>
             /\ book'[r].pc = "done"
             /\ book'[r].resp \in { ErrResp(404, "meeting type not found"),
                                    ErrResp(500, "query failed: meeting_types") }
        /\ UnknownId(r) => book[r].pc \in {"recv", "mtQ"}
        /\ (UnknownId(r) /\ book'[r] # book[r]) =>
             /\ UNCHANGED Effects
             /\ UNCHANGED << storeVars, calExternal >>
    ]_vars

C5_Witness ==
  \E r \in Reqs :
    /\ book[r].pc = "done"
    /\ book[r].resp = ErrResp(404, "meeting type not found")
    /\ bookings \subseteq {OldCancelled}
    /\ calEvents = {}
    /\ email_outbox = << >>


\* The notifications dispatched for event k, in order: the rows queued in
\* email_outbox in queue mode, the messages handed to Postmark otherwise.
DispatchedFor(k) ==
  LET T(x) == x.event = k
      q == SelectSeq(email_outbox, T)
      p == SelectSeq(postmarkSent, T)
  IN IF UseQueue
       THEN [i \in 1..Len(q) |-> [to |-> q[i].to_email, subject |-> q[i].subject]]
       ELSE [i \in 1..Len(p) |-> [to |-> p[i].to, subject |-> p[i].subject]]

\* The two notifications of a booking: the recipient's, then the host's.
ExpectedMail(e) ==
  << [to |-> e.attendees[2], subject |-> "Confirmed"],
     [to |-> e.attendees[1], subject |-> "New booking"] >>

\* Event k exists and a confirmed row with its owner and window exists.
EventHasRow(k) ==
  \E e \in calEvents :
    /\ e.id = k
    /\ \E b \in ConfirmedRows :
         OwnerOf(b) = e.owner /\ b.start_time = e.start /\ b.end_time = e.end

\* C6: the side effects of a booking come in the order event, row, mail to the
\* recipient, mail to the host: every confirmed row has its event; every
\* notification is for an event whose row exists; the notifications of an
\* event are a prefix of (recipient, host); a request that answered 200 has
\* its event, its row and exactly both notifications.
C6_CommitOrder ==
  /\ \A b \in ConfirmedRows :
       \E e \in calEvents :
         e.owner = OwnerOf(b) /\ e.start = b.start_time /\ e.end = b.end_time
  /\ \A i \in 1..Len(email_outbox) : EventHasRow(email_outbox[i].event)
  /\ \A i \in 1..Len(postmarkSent) : EventHasRow(postmarkSent[i].event)
  /\ \A e \in calEvents :
       LET d == DispatchedFor(e.id)
       IN /\ Len(d) <= 2
          /\ \A i \in 1..Len(d) : d[i] = ExpectedMail(e)[i]
  /\ \A r \in Reqs :
       (book[r].pc = "done" /\ book[r].resp.status = 200) =>
         /\ \E b \in ConfirmedRows : b.id = book[r].resp.bookingId
         /\ \E e \in calEvents : e.id = book[r].resp.eventId
         /\ Len(DispatchedFor(book[r].resp.eventId)) = 2

C6_Witness ==
  \E r \in Reqs :
    /\ book[r].pc = "done"
    /\ book[r].resp.status = 200
    /\ Len(DispatchedFor(book[r].resp.eventId)) = 2

\* C7: when calendar.events.insert fails the request ends with a 500 and
\* nothing is inserted or mailed; a request gets past the event step only
\* with its event created.
C7_EventFailureAborts ==
  [][ \A r \in Reqs :
        /\ Left(r, "evIns") =>
             /\ UNCHANGED << bookings, email_outbox, postmarkSent >>
             /\ IF calEvents' = calEvents
                  THEN /\ book'[r].pc = "done"
                       /\ book'[r].resp = ErrResp(500, "events.insert failed")
                  ELSE /\ book'[r].pc = "bkIns"
                       /\ \E e \in calEvents' \ calEvents :
                            /\ e.id = book'[r].eventId
                            /\ calEvents' = calEvents \cup {e}
        /\ book[r].pc \in CommitPcs \ {"evIns"} =>
             \E e \in calEvents : e.id = book[r].eventId
    ]_vars

C7_Witness ==
  \E r \in Reqs :
    /\ book[r].pc = "done"
    /\ book[r].resp = ErrResp(500, "events.insert failed")
    /\ calEvents = {}
    /\ ConfirmedRows = {}
    /\ email_outbox = << >>
    /\ postmarkSent = << >>

\* C8: when the booking INSERT fails after the event was created the request
\* ends with a 500, mails nothing and leaves the event where it is; no step
\* ever removes a calendar event, so the event without a row stays.
C8_InsertFailureLeavesEvent ==
  [][ /\ \A r \in Reqs :
           (Left(r, "bkIns") /\ bookings' = bookings) =>
             /\ book'[r].pc = "done"
             /\ book'[r].resp = ErrResp(500, "insert failed: bookings")
             /\ UNCHANGED << calEvents, email_outbox, postmarkSent >>
             /\ \E e \in calEvents : e.id = book[r].eventId
      /\ calEvents \subseteq calEvents'
      /\ \A r \in Reqs : book[r].pc = "done" => book'[r] = book[r]
    ]_vars

\* An event of a request whose INSERT failed, with no row for its window.
C8_Witness ==
  \E r \in Reqs :
    /\ book[r].pc = "done"
    /\ book[r].resp = ErrResp(500, "insert failed: bookings")
    /\ \A q \in Reqs : book[q].pc \in {"idle", "done"}
    /\ \E e \in calEvents :
         ~ \E b \in bookings : b.start_time = e.start /\ b.end_time = e.end

\* C9: a failed notification after the row was inserted is swallowed: the
\* request still answers 200 with its bookingId and eventId.
C9_MailFailureSwallowed ==
  [][ \A r \in Reqs :
        (book[r].pc \in MailPcs /\ book'[r].pc = "done") =>
          /\ book'[r].resp.status = 200
          /\ book'[r].resp.bookingId = book[r].bookingId
          /\ book'[r].resp.eventId = book[r].eventId
    ]_vars

\* Responses of GET /availability that report a collaborator or a lookup, not the input.
NotInputErrors ==
  { "query failed: meeting_types", "query failed: oauth_tokens", "freebusy.query failed",
    "meeting type not found", "Google not connected for user" }

BadQuery(q) ==
  MissingAvailParams(q) \/ IsNaN(DateParse(q.from)) \/ IsNaN(DateParse(q.to))

\* C10: a request with a missing field or an unparseable timestamp is
\* answered with the invalid-input 400, by POST /book and by GET /availability
\* alike, and changes nothing.
C10_InvalidInput ==
  [][ /\ \A r \in Reqs :
           ( /\ Left(r, "recv")
             /\ \/ MissingBookFields(book[r].body)
                \/ IsNaN(DateParse(book[r].body.start_time)) ) =>
             /\ book'[r].pc = "done"
             /\ book'[r].resp.status = 400
             /\ UNCHANGED Effects
      /\ ( /\ avail.pc \in {"recv", "mtQ", "auth", "fb"}
           /\ avail'.pc = "done"
           /\ BadQuery(avail.q)
           /\ avail'.resp.error \notin NotInputErrors ) =>
           /\ avail'.resp.status = 400
           /\ UNCHANGED Effects
    ]_vars


\* ------------------------------------------------------------ slot generation
\* The freebusy step of GET /availability answers with the slots.
Answered == avail.pc = "fb" /\ avail'.pc = "done" /\ avail'.resp.status = 200

\* The window and the step of the request that is being answered.
WinStart == DateParse(avail.timeMin)
WinEnd == DateParse(avail.timeMax)
StepMs == avail.mt.duration_minutes * MsPerMin

\* No interval of the owner's calendar overlaps the window, so the list the
\* freebusy call returns holds no interval or only ones touching the window.
WindowClear ==
  \A i \in BusyOf(avail.mt.user_id) : ~overlaps(i.start, i.end, WinStart, WinEnd)

\* C11: when the calendar reports no busy interval for the window and the
\* window does not end before it starts, GET /availability answers with
\* exactly floor((windowEnd - windowStart) / duration) slots.
C11_EmptyBusyCount ==
  [][ (Answered /\ WindowClear /\ WinStart <= WinEnd)
        => Len(avail'.resp.slots) = (WinEnd - WinStart) \div StepMs ]_vars

\* A window of three minutes tiled by a two-minute type over an empty
\* calendar: one slot, the remainder is dropped.
C11_Witness ==
  /\ avail.pc = "done"
  /\ avail.resp.status = 200
  /\ calExternal = {} /\ calEvents = {}
  /\ avail.resp.timeMin = "1970-01-01T00:00:00.000Z"
  /\ avail.resp.timeMax = "1970-01-01T00:03:00.000Z"
  /\ avail.resp.durationMinutes = 2
  /\ Len(avail.resp.slots) = 1

\* The slots of a response as a set of (start, end) instants.
SlotSet(slots) ==
  { [start |-> DateParse(slots[k].start), end |-> DateParse(slots[k].end)] :
      k \in 1..Len(slots) }

\* C12: no slot GET /availability returns overlaps, under the half-open rule,
\* a busy interval the owner's calendar holds for the query window.
C12_NoSlotOverBusy ==
  [][ Answered =>
        \A s \in SlotSet(avail'.resp.slots), i \in BusyOf(avail.mt.user_id) :
          ~overlaps(s.start, s.end, i.start, i.end) ]_vars

\* Four one-minute tiles with minutes 1 to 3 busy: the first and the last
\* tile are returned, the two between are not.
C12_Witness ==
  /\ avail.pc = "done"
  /\ avail.resp.status = 200
  /\ calExternal = { [owner |-> "u1", start |-> MsPerMin, end |-> 3 * MsPerMin] }
  /\ avail.resp.timeMin = "1970-01-01T00:00:00.000Z"
  /\ avail.resp.timeMax = "1970-01-01T00:04:00.000Z"
  /\ avail.resp.durationMinutes = 1
  /\ SlotSet(avail.resp.slots)
       = { [start |-> 0, end |-> MsPerMin], [start |-> 3 * MsPerMin, end |-> 4 * MsPerMin] }

\* Two half-open intervals [start, end) share an instant.
HalfOpenOverlap(a, b) == a.start < b.end /\ b.start < a.end

\* Two intervals meet at a boundary.
Touch(a, b) == a.end = b.start \/ b.end = a.start

\* The candidate slots of the request being answered: the tiles of the
\* duration laid from the start of the window that end inside it.
Tiles ==
  { tile \in { [start |-> WinStart + k * StepMs, end |-> WinStart + (k + 1) * StepMs] :
                 k \in 0..((WinEnd - WinStart) \div StepMs) } :
      tile.end <= WinEnd }

\* C13: a candidate slot that touches a busy interval of the owner's calendar
\* (its start is the interval's end, or its end the interval's start) and
\* overlaps no busy interval is returned by GET /availability.
C13_TouchingIsFree ==
  [][ Answered =>
        \A tile \in Tiles :
          ( /\ \E i \in BusyOf(avail.mt.user_id) : Touch(tile, i)
            /\ \A i \in BusyOf(avail.mt.user_id) : ~HalfOpenOverlap(tile, i) )
          => tile \in SlotSet(avail'.resp.slots) ]_vars

\* Minute 1 to 2 is busy in a window of three one-minute tiles: the tile
\* ending at minute 1 and the tile starting at minute 2 are both returned.
C13_Witness ==
  /\ avail.pc = "done"
  /\ avail.resp.status = 200
  /\ calExternal = { [owner |-> "u1", start |-> MsPerMin, end |-> 2 * MsPerMin] }
  /\ avail.resp.timeMin = "1970-01-01T00:00:00.000Z"
  /\ avail.resp.timeMax = "1970-01-01T00:03:00.000Z"
  /\ avail.resp.durationMinutes = 1
  /\ SlotSet(avail.resp.slots)
       = { [start |-> 0, end |-> MsPerMin], [start |-> 2 * MsPerMin, end |-> 3 * MsPerMin] }

\* The instants of slot k of the response the client holds.
SlotStart(k) == DateParse(avail.resp.slots[k].start)
SlotEnd(k) == DateParse(avail.resp.slots[k].end)

\* C14: in every response of GET /availability each slot is as long as the
\* meeting type's duration, starts a whole number of durations after the
\* start of the window, lies inside the window, and the slots come in
\* strictly increasing order of start and do not overlap one another.
C14_SlotShape ==
  avail.resp.status = 200 =>
    LET lo == DateParse(avail.resp.timeMin)
        hi == DateParse(avail.resp.timeMax)
        step == avail.resp.durationMinutes * MsPerMin
        n == Len(avail.resp.slots)
    IN /\ \A k \in 1..n :
            /\ SlotEnd(k) - SlotStart(k) = step
            /\ SlotStart(k) >= lo
            /\ (SlotStart(k) - lo) % step = 0
            /\ SlotEnd(k) <= hi
       /\ \A k \in 1..(n - 1) : SlotStart(k) < SlotStart(k + 1)
       /\ \A j, k \in 1..n :
            j # k => ~(SlotStart(j) < SlotEnd(k) /\ SlotStart(k) < SlotEnd(j))

\* A four-minute window answered for the two-minute type with two slots.
C14_Witness ==
  /\ avail.pc = "done"
  /\ avail.resp.status = 200
  /\ avail.resp.durationMinutes = 2
  /\ avail.resp.timeMin = "1970-01-01T00:00:00.000Z"
  /\ avail.resp.timeMax = "1970-01-01T00:04:00.000Z"
  /\ Len(avail.resp.slots) = 2

\* The candidate tiles no busy interval of the owner's calendar overlaps.
FreeTiles ==
  { tile \in Tiles : \A i \in BusyOf(avail.mt.user_id) : ~HalfOpenOverlap(tile, i) }

\* The request being answered asks for 09:00 to 10:00 with the half-hour type.
MorningHour ==
  /\ avail.timeMin = "1970-01-01T09:00:00.000Z"
  /\ avail.timeMax = "1970-01-01T10:00:00.000Z"
  /\ avail.mt.duration_minutes = 30

\* ... and the owner's calendar holds nothing (A), or 09:15 to 09:45 only (B).
ScenarioA == MorningHour /\ BusyOf(avail.mt.user_id) = {}
ScenarioB ==
  MorningHour
    /\ BusyOf(avail.mt.user_id) = { [start |-> 555 * MsPerMin, end |-> 585 * MsPerMin] }

FirstHalfHour == [start |-> "1970-01-01T09:00:00.000Z", end |-> "1970-01-01T09:30:00.000Z"]
SecondHalfHour == [start |-> "1970-01-01T09:30:00.000Z", end |-> "1970-01-01T10:00:00.000Z"]

\* The slots returned are exactly the free candidate tiles, each once.
ExactlyFreeTiles ==
  /\ SlotSet(avail'.resp.slots) = FreeTiles
  /\ Len(avail'.resp.slots) = Cardinality(FreeTiles)

\* C15 as stated: the slots returned are exactly the candidate tiles that
\* overlap no busy interval, and for 09:00-10:00, 30 minutes, busy
\* 09:15-09:45 the answer is the one slot 09:30-10:00.
C15_CompleteAsStated ==
  [][ Answered =>
        /\ ExactlyFreeTiles
        /\ ScenarioA => avail'.resp.slots = << FirstHalfHour, SecondHalfHour >>
        /\ ScenarioB => avail'.resp.slots = << SecondHalfHour >> ]_vars

\* C15, amended: the slots returned are exactly the candidate tiles that
\* overlap no busy interval, none omitted; for 09:00-10:00, 30 minutes, an
\* empty calendar yields both half hours, and busy 09:15-09:45 yields no
\* slot, since it overlaps both tiles.
C15_Complete ==
  [][ Answered =>
        /\ ExactlyFreeTiles
        /\ ScenarioA => avail'.resp.slots = << FirstHalfHour, SecondHalfHour >>
        /\ ScenarioB => avail'.resp.slots = << >> ]_vars

\* The morning hour was answered with no slot while 09:15-09:45 was busy.
C15_Witness ==
  /\ avail.pc = "done"
  /\ avail.resp.status = 200
  /\ avail.resp.timeMin = "1970-01-01T09:00:00.000Z"
  /\ avail.resp.timeMax = "1970-01-01T10:00:00.000Z"
  /\ avail.resp.durationMinutes = 30
  /\ calExternal = { [owner |-> "u1", start |-> 555 * MsPerMin, end |-> 585 * MsPerMin] }
  /\ avail.resp.slots = << >>

\* What GET /availability must leave alone.
AvailUntouched == << bookings, meeting_types, email_outbox, postmarkSent, calExternal, calEvents >>

\* The request being answered repeats the window and duration of the
\* response the client already holds.
AskedBefore ==
  /\ avail.resp.status = 200
  /\ avail.resp.timeMin = avail.timeMin
  /\ avail.resp.timeMax = avail.timeMax
  /\ avail.resp.durationMinutes = avail.mt.duration_minutes

C17_NoSlotOverBooking ==
  [][ Answered =>
        \A s \in SlotSet(avail'.resp.slots), b \in ConfirmedRows :
          OwnerOf(b) = avail.mt.user_id
            => ~(s.start < b.end_time /\ b.start_time < s.end) ]_vars

\* ----------------------------------------------------------- booking rows
\* duration_minutes of a meeting type of the store.
DurationOf(id) == (CHOOSE m \in meeting_types : m.id = id).duration_minutes

\* C18: every row a step adds to bookings is added by the INSERT of a
\* POST /book request, has status confirmed, starts at the start_time that
\* request asked for and ends one meeting-type duration later.
C18_RowAsRequested ==
  [][ \A b \in bookings' \ bookings :
        \E r \in Reqs :
          /\ Left(r, "bkIns")
          /\ b.status = "confirmed"
          /\ b.meeting_type_id = book[r].body.meetingTypeId
          /\ b.start_time = DateParse(book[r].body.start_time)
          /\ b.end_time = b.start_time + DurationOf(b.meeting_type_id) * MsPerMin ]_vars

\* A confirmed row of the two-minute type from minute 1 to minute 3.
C18_Witness ==
  \E b \in bookings :
    /\ b.status = "confirmed"
    /\ b.meeting_type_id = 2
    /\ b.start_time = MsPerMin
    /\ b.end_time = 3 * MsPerMin

\* C19: POST /book never confirms a booking whose start is not a slot
\* boundary: a row inserted for a window inside the window GET /availability
\* has already answered, for that duration, starts a whole number of
\* durations after the start of the answered window, as the slots offered do.
C19_BookedOnSlotBoundary ==
  [][ \A b \in bookings' \ bookings :
        LET lo == DateParse(avail.resp.timeMin)
            hi == DateParse(avail.resp.timeMax)
            step == avail.resp.durationMinutes * MsPerMin
        IN ( /\ avail.resp.status = 200
             /\ avail.resp.durationMinutes = DurationOf(b.meeting_type_id)
             /\ lo <= b.start_time
             /\ b.end_time <= hi )
           => (b.start_time - lo) % step = 0 ]_vars

\* C20: POST /book answers the calendar-conflict 409 exactly when an interval
\* its freebusy call returned overlaps the requested window under the
\* half-open rule; a returned interval that only touches the window does
\* not reject.  (The returned list holds every overlapping interval of the
\* calendar and no interval that is not on it.)
C20_RejectIffOverlap ==
  [][ \A r \in Reqs :
        Left(r, "fb") =>
          /\ CalendarOverlap(r) =>
                book'[r].resp \in { ErrResp(409, "slot not available (calendar busy)"),
                                    ErrResp(500, "freebusy.query failed") }
          /\ book'[r].resp = ErrResp(409, "slot not available (calendar busy)")
                => CalendarOverlap(r) ]_vars

\* ------------------------------------------------------ the overlap query
\* C21: the predicate of the overlap query, NOT (end_time <= $2 OR
\* start_time >= $3), selects among the confirmed rows of the owner exactly
\* those for which overlaps(b.start, b.end, requestedStart, requestedEnd)
\* holds; a confirmed row that ends at the requested start or starts at the
\* requested end does not give the existing-booking 409.
C21_QueryIsOverlaps ==
  [][ \A r \in Reqs :
        Left(r, "overlapQ") =>
          /\ \A b \in bookings :
                b \in OverlapRows(book[r].mt.user_id, ToISOString(book[r].start),
                                  ToISOString(book[r].end))
                  <=> /\ b.status = "confirmed"
                      /\ OwnerOf(b) = book[r].mt.user_id
                      /\ overlaps(b.start_time, b.end_time, book[r].start, book[r].end)
          /\ ~LocalOverlap(r)
                => book'[r].resp # ErrResp(409, "slot not available (existing booking)") ]_vars

\* Back-to-back: the request succeeded with a row that starts where an
\* older confirmed row of the same owner ends.
C21_Witness ==
  /\ Succeeded(1)
  /\ \E b \in ConfirmedRows :
       /\ b.id # RowOf(1).id
       /\ OwnerOf(b) = OwnerOf(RowOf(1))
       /\ b.end_time = RowOf(1).start_time

\* ------------------------------------------------- the order of the checks
\* Request r moves to the point `at` of its handler.
Entered(r, at) == book'[r].pc = at /\ book[r].pc # at

\* Request r is answered with the given error in this step.
Answers(r, code, msg) == book'[r].resp = ErrResp(code, msg) /\ book[r].resp # ErrResp(code, msg)

\* C22: POST /book looks up the meeting type, then asks the calendar, then
\* queries the stored bookings, in that order: the overlap query is issued
\* only by a request whose calendar answer was empty, each rejection comes
\* from its own step, and a request whose window overlaps both a calendar
\* interval and a confirmed booking of the owner gets the calendar-busy 409
\* (or the 500 of a failed freebusy call), never the existing-booking 409.
C22_ValidationOrder ==
  [][ \A r \in Reqs :
        /\ Entered(r, "hostQ") => book[r].pc = "mtQ"
        /\ Entered(r, "fb") => book[r].pc = "auth"
        /\ Entered(r, "overlapQ") => (book[r].pc = "fb" /\ ~CalendarBusy(book'[r].busy))
        /\ Entered(r, "evIns") => book[r].pc = "overlapQ"
        /\ Answers(r, 404, "meeting type not found") => book[r].pc = "mtQ"
        /\ Answers(r, 409, "slot not available (calendar busy)") => book[r].pc = "fb"
        /\ Answers(r, 409, "slot not available (existing booking)") => book[r].pc = "overlapQ"
        /\ (Left(r, "fb") /\ CalendarOverlap(r) /\ LocalOverlap(r))
              => book'[r].resp \in { ErrResp(409, "slot not available (calendar busy)"),
                                     ErrResp(500, "freebusy.query failed") } ]_vars

\* A request waits for the calendar's answer while both the calendar and a
\* confirmed booking of the owner overlap its window.
C22_Witness ==
  \E r \in Reqs :
    /\ book[r].pc = "fb"
    /\ CalendarOverlap(r)
    /\ LocalOverlap(r)

\* ------------------------------------------------------- meeting types
\* A number that is a whole number greater than zero.
PositiveInteger(x) == IsFinite(x) /\ x.n > 0 /\ x.n % x.d = 0

\* C23: POST /meeting-types answers 400 and inserts nothing when the
\* duration_minutes of a signed-in request with a title is missing,
\* non-numeric, zero, negative or not an integer, and every row a step adds
\* to meeting_types has a positive integer duration.
C23_PositiveIntegerDuration ==
  [][ /\ \A m \in meeting_types' \ meeting_types : PositiveInteger(m.duration_minutes)
      /\ ( /\ create.pc = "recv"
           /\ create'.pc # "recv"
           /\ create.body.userId # ""
           /\ create.body.title # ""
           /\ ~PositiveInteger(ToNumber(create.body.duration_minutes)) )
         => (create'.resp.status = 400 /\ UNCHANGED meeting_types) ]_vars

\* ----------------------------------------------------------- the slot loop
\* C24: the slot loop of GET /availability ends with a finite list for every
\* meeting type of the store and every window: each iteration moves the
\* loop variable up by the step, the loop ends once t + step > windowEnd
\* with the list Slots computes, and a window that ends before it starts or
\* is shorter than one duration gives the empty list.
C24_LoopTerminates ==
  /\ [][ /\ (avail.pc = "loop" /\ avail'.pc = "loop")
             => (avail'.t = avail.t + StepMs /\ avail'.t > avail.t)
         /\ (avail.pc = "loop" /\ avail'.pc = "done")
             => /\ avail.t + StepMs > WinEnd
                /\ avail'.resp.slots
                     = Slots(avail.timeMin, avail.timeMax, avail.mt.duration_minutes,
                             avail.busy)
                /\ ((WinStart > WinEnd \/ WinEnd - WinStart < StepMs)
                     => avail'.resp.slots = << >>) ]_vars
  /\ (avail.pc = "loop") ~> (avail.pc = "done")

\* The loop has gone round twice and is still running.
C24_Witness ==
  /\ avail.pc = "loop"
  /\ avail.t = DateParse(avail.timeMin) + 2 * avail.mt.duration_minutes * MsPerMin
  /\ avail.t + avail.mt.duration_minutes * MsPerMin <= DateParse(avail.timeMax)

\* ------------------------------------------------- one request at a time
\* Request r knows its window and has not yet passed the two conflict checks.
BeforeCommit(r) == book[r].pc \in {"auth", "fb", "overlapQ"}

\* C25: when POST /book requests run one after another, no two confirmed
\* bookings of one owner overlap, and a request whose window overlaps a
\* confirmed booking of the owner never reaches the event insert: it ends
\* with a 409 (or the 500 of a call that failed), and its steps create no
\* calendar event and insert no row.
C25_SequentialSafe ==
  [][ /\ \A a, b \in ConfirmedRows' :
           (a # b /\ OwnerOf(a) = OwnerOf(b))
             => ~(a.start_time < b.end_time /\ b.start_time < a.end_time)
      /\ \A r \in Reqs :
           (BeforeCommit(r) /\ LocalOverlap(r) /\ book'[r] # book[r])
             => /\ book'[r].pc \in {"fb", "overlapQ", "done"}
                /\ book'[r].pc = "done" => book'[r].resp.status \in {409, 500}
                /\ UNCHANGED << calEvents, bookings >> ]_vars

\* The second request was turned away by the overlap query after the first
\* one had been confirmed.
C25_Witness ==
  /\ Succeeded(1)
  /\ book[2].pc = "done"
  /\ book[2].resp = ErrResp(409, "slot not available (existing booking)")

\* ------------------------------------------------------- rows and events
\* The events on the calendar with the given id.
EventsWithId(k) == { e \in calEvents : e.id = k }

\* C26: every step that inserts a booking row inserts one confirmed row, for
\* a request that created, in an earlier step, exactly one calendar event
\* with the row's owner, start and end; every step that creates events
\* creates one, for a request that had created none; a request comes to the
\* event insert once; two requests that succeeded have different events and
\* rows; and the calendar always holds at least as many created events as
\* the store holds confirmed rows.
C26_RowHasItsEvent ==
  /\ [](Cardinality(calEvents) >= Cardinality(ConfirmedRows))
  /\ [](\A r, q \in Reqs :
          (r # q /\ Succeeded(r) /\ Succeeded(q))
            => /\ book[r].resp.eventId # book[q].resp.eventId
               /\ book[r].resp.bookingId # book[q].resp.bookingId)
  /\ [][ /\ bookings' # bookings =>
             \E r \in Reqs, b \in bookings' :
               /\ Left(r, "bkIns")
               /\ book[r].bookingId = 0
               /\ bookings' = bookings \cup {b}
               /\ b \notin bookings
               /\ b.status = "confirmed"
               /\ book'[r].bookingId = b.id
               /\ Cardinality(EventsWithId(book[r].eventId)) = 1
               /\ \A e \in EventsWithId(book[r].eventId) :
                    /\ e.owner = OwnerOf(b)
                    /\ e.start = b.start_time
                    /\ e.end = b.end_time
         /\ calEvents' # calEvents =>
             \E r \in Reqs, e \in calEvents' :
               /\ Left(r, "evIns")
               /\ book[r].eventId = 0
               /\ calEvents' = calEvents \cup {e}
               /\ e \notin calEvents
               /\ EventsWithId(e.id) = {}
               /\ book'[r].eventId = e.id
         /\ \A r \in Reqs :
              Entered(r, "evIns") => (book[r].eventId = 0 /\ book[r].bookingId = 0) ]_vars

\* Both requests succeeded, each with an event and a row of its own.
C26_Witness ==
  /\ Succeeded(1)
  /\ Succeeded(2)
  /\ book[1].resp.eventId # book[2].resp.eventId
  /\ Cardinality(calEvents) = 2
  /\ Cardinality(ConfirmedRows) = 2
====
